---------------------------- MODULE Spec2Model ----------------------------
(***************************************************************************)
(* A model of src/main.py: the BasicBot order client and the interactive   *)
(* loop of main().                                                          *)
(*                                                                          *)
(* Text is modelled as a sequence of one-character strings, so that        *)
(* "0.10" is <<"0", ".", "1", "0">> and parsing, splitting, stripping and  *)
(* formatting are computed character by character as Python does.          *)
(*                                                                          *)
(* A Python float is modelled as a decimal [m |-> mantissa, e |-> digits]  *)
(* standing for m / 10^e, kept in lowest form.  Arithmetic on them is      *)
(* exact; the one place where the binary representation of a float can     *)
(* change a result, the half-way case of round(), is modelled by the       *)
(* parameter fp of PyRound.                                                *)
(***************************************************************************)
EXTENDS Integers, Sequences, FiniteSets, TLC

VARIABLES
    pc,             \* position of main() ("start", "menu", "ask_...", "exited", "crashed"),
                    \* or "client" for a bot constructed by another caller
    exchange_info,  \* BasicBot.exchange_info
    fetches,        \* number of calls of client.futures_exchange_info()
    calls,          \* number of place_* calls made so far
    sent,           \* number of calls of client.futures_create_order()
    last_call,      \* the operation handled last, with its arguments
    request,        \* keyword arguments of futures_create_order() in the last operation
    result,         \* what the last operation returned (or raised)
    logged,         \* records the last operation gave to the logger / console
    inp,            \* what main() has read for the menu choice in progress
    nv,             \* normalizer harness: value
    ns,             \* normalizer harness: step size string
    nout,           \* normalizer harness: _round_value(nv, ns)
    nagain,         \* normalizer harness: _round_value(float(nout), ns)
    npc             \* normalizer harness: "idle", "input", "normalized", "renormalized"

botvars == <<pc, exchange_info, fetches, calls, sent, last_call, request, result, logged, inp>>
normvars == <<nv, ns, nout, nagain, npc>>
vars == <<pc, exchange_info, fetches, calls, sent, last_call, request, result, logged, inp,
          nv, ns, nout, nagain, npc>>

-----------------------------------------------------------------------------
(* Text and numbers *)

Digits == <<"0", "1", "2", "3", "4", "5", "6", "7", "8", "9">>

DigitChar(d) == Digits[d + 1]

DigitVal(c) == CHOOSE d \in 0..9 : Digits[d + 1] = c

RECURSIVE Pow10(_)
Pow10(n) == IF n = 0 THEN 1 ELSE 10 * Pow10(n - 1)

Abs(x) == IF x < 0 THEN -x ELSE x

Max(a, b) == IF a >= b THEN a ELSE b

\* The decimal m / 10^e in lowest form (a float carries no trailing zeros).
RECURSIVE Norm(_)
Norm(d) ==
    IF d.e > 0 /\ d.m % 10 = 0
    THEN Norm([m |-> d.m \div 10, e |-> d.e - 1])
    ELSE d

Dec(m, e) == Norm([m |-> m, e |-> e])

\* The value of a run of digits.
RECURSIVE DigitsVal(_)
DigitsVal(s) ==
    IF s = <<>> THEN 0
    ELSE 10 * DigitsVal(SubSeq(s, 1, Len(s) - 1)) + DigitVal(s[Len(s)])

\* str.split('.')[-1]: the text after the last '.', the whole text when there is none.
LastPart(s) ==
    LET dots == {i \in 1..Len(s) : s[i] = "."}
    IN  IF dots = {} THEN s
        ELSE LET last == CHOOSE i \in dots : \A j \in dots : j <= i
             IN  SubSeq(s, last + 1, Len(s))

\* str.rstrip('0')
RECURSIVE RStrip0(_)
RStrip0(s) ==
    IF s # <<>> /\ s[Len(s)] = "0" THEN RStrip0(SubSeq(s, 1, Len(s) - 1)) ELSE s

\* float(text) for text of the form [-]digits[.digits]
ParseFloat(s) ==
    LET neg  == s # <<>> /\ s[1] = "-"
        body == IF neg THEN Tail(s) ELSE s
        dots == {i \in 1..Len(body) : body[i] = "."}
        dot  == IF dots = {} THEN Len(body) + 1 ELSE CHOOSE i \in dots : TRUE
        ip   == SubSeq(body, 1, dot - 1)
        fp   == SubSeq(body, dot + 1, Len(body))
        mag  == DigitsVal(ip \o fp)
    IN  Dec(IF neg THEN -mag ELSE mag, Len(fp))

\* str(n) for an integer n >= 0
RECURSIVE IntStr(_)
IntStr(n) ==
    IF n < 10 THEN <<DigitChar(n)>>
    ELSE IntStr(n \div 10) \o <<DigitChar(n % 10)>>

\* n written with exactly p digits, zero-padded on the left
RECURSIVE PadDigits(_, _)
PadDigits(n, p) ==
    IF p = 0 THEN <<>>
    ELSE PadDigits(n \div 10, p - 1) \o <<DigitChar(n % 10)>>

\* The integer nearest to num / den (den > 0), ties to the even one.
HalfEven(num, den) ==
    LET q == num \div den
        r == num % den
    IN  IF 2 * r < den THEN q
        ELSE IF 2 * r > den THEN q + 1
        ELSE IF q % 2 = 0 THEN q ELSE q + 1

\* Whether num / den lies exactly half-way between two integers.
IsHalfWay(num, den) == 2 * (num % den) = den

\* How the double that holds a quotient can lie relative to a decimal half-way
\* point: on it, just below it or just above it.
FloatErrors == {"exact", "below", "above"}

\* Python's round(x) of the float x = num / den.  Away from a half-way point the
\* representation error of x cannot change the nearest integer; at one, the
\* double is the half-way point itself (ties to even) or a neighbour of it.
PyRound(num, den, fp) ==
    IF IsHalfWay(num, den) /\ fp = "below" THEN num \div den
    ELSE IF IsHalfWay(num, den) /\ fp = "above" THEN (num \div den) + 1
    ELSE HalfEven(num, den)

\* f"{x:.{p}f}" for the float x = d.m / 10^d.e: x to p fractional digits, the
\* integer part, and the p digits after a '.' when p > 0.
FormatFixed(d, p) ==
    LET q  == IF p >= d.e THEN d.m * Pow10(p - d.e) ELSE HalfEven(d.m, Pow10(d.e - p))
        a  == Abs(q)
    IN  (IF q < 0 THEN <<"-">> ELSE <<>>)
        \o IntStr(a \div Pow10(p))
        \o (IF p > 0 THEN <<".">> \o PadDigits(a % Pow10(p), p) ELSE <<>>)

-----------------------------------------------------------------------------
(* BasicBot._round_value *)

\* Line 63 with the quotient rounded to the next integer above it whatever the
\* quotient is (int(q) + 1 written for round(q)).
RoundedUnitsAlwaysUp(value, step_size, fp) ==
    LET E == Max(value.e, step_size.e)
    IN  ((value.m * Pow10(E - value.e)) \div (step_size.m * Pow10(E - step_size.e))) + 1

\* round(value / step_size), line 63: the number of steps nearest to value.
RoundedUnits(value, step_size, fp) ==
    LET E == Max(value.e, step_size.e)
    IN  PyRound(value.m * Pow10(E - value.e), step_size.m * Pow10(E - step_size.e), fp)

\* Lines 56-60 with the trailing zeros of the step size kept (no rstrip('0')).
PrecisionNoStrip(step_size_str) ==
    IF ParseFloat(step_size_str) = Dec(1, 0) THEN 0
    ELSE Len(LastPart(step_size_str))

\* Lines 56-60: the number of fractional digits to print.
Precision(step_size_str) ==
    IF ParseFloat(step_size_str) = Dec(1, 0) THEN 0
    ELSE Len(RStrip0(LastPart(step_size_str)))

\* Lines 51-66.  fp is where the double value / step_size lies when the decimal
\* quotient is a half-way point (see PyRound).
_round_value(value, step_size_str, fp) ==
    LET step_size     == ParseFloat(step_size_str)
        precision     == Precision(step_size_str)
        rounded_value == Dec(RoundedUnits(value, step_size, fp) * step_size.m, step_size.e)
    IN  FormatFixed(rounded_value, precision)

RECURSIVE Pow5(_)
Pow5(n) == IF n = 0 THEN 1 ELSE 5 * Pow5(n - 1)

\* Whether the decimal d is a double exactly (m / 10^e with 5^e dividing m);
\* the magnitudes of the model are far below 2^53.
IsBinaryExact(d) == d.m % Pow5(d.e) = 0

\* The positions the double value / step_size can take for these arguments: a
\* half-way quotient of two exactly held operands is held exactly.
FloatCases(value, step_size_str) ==
    LET step_size == ParseFloat(step_size_str)
        E == Max(value.e, step_size.e)
    IN  IF /\ IsHalfWay(value.m * Pow10(E - value.e), step_size.m * Pow10(E - step_size.e))
           /\ ~(IsBinaryExact(value) /\ IsBinaryExact(step_size))
        THEN FloatErrors ELSE {"exact"}

-----------------------------------------------------------------------------
(* The exchange metadata and BasicBot._get_symbol_filters *)

\* dict.get(key, default)
DictGet(d, key, default) == IF key \in DOMAIN d THEN d[key] ELSE default

\* {} as a dict
EmptyDict == <<>>

\* Two answers futures_exchange_info() can give.  BTCUSDT carries both filters;
\* ETHUSDT lacks one filter kind and has the other without its step entry.
SnapshotA ==
    [symbols |-> <<
        [symbol |-> "BTCUSDT",
         filters |-> << [filterType |-> "PRICE_FILTER", tickSize |-> <<"0", ".", "1", "0">>],
                        [filterType |-> "LOT_SIZE", stepSize |-> <<"0", ".", "0", "0", "1">>] >>],
        [symbol |-> "ETHUSDT",
         filters |-> << [filterType |-> "PRICE_FILTER", minPrice |-> <<"0", ".", "0", "1">>] >>] >>]

SnapshotB ==
    [symbols |-> <<
        [symbol |-> "BTCUSDT",
         filters |-> << [filterType |-> "PRICE_FILTER", tickSize |-> <<"0", ".", "1", "0">>],
                        [filterType |-> "LOT_SIZE", stepSize |-> <<"0", ".", "0", "0", "1">>] >>],
        [symbol |-> "ETHUSDT",
         filters |-> << [filterType |-> "LOT_SIZE", minQty |-> <<"1">>],
                        [filterType |-> "MIN_NOTIONAL", notional |-> <<"5">>] >>] >>]

Snapshots == {SnapshotA, SnapshotB}

\* The bot before __init__ has stored anything.
NotFetched == [symbols |-> <<>>, unset |-> TRUE]

\* Lines 44-49 with a miss answered by an empty filter set instead of ValueError.
_get_symbol_filters_no_raise(info, symbol) ==
    LET hits == {i \in 1..Len(info.symbols) : info.symbols[i].symbol = symbol}
    IN  IF hits = {} THEN [raised |-> FALSE, filters |-> EmptyDict, exchange_info |-> info]
        ELSE LET item  == info.symbols[CHOOSE i \in hits : \A j \in hits : i <= j]
                 types == {item.filters[k].filterType : k \in 1..Len(item.filters)}
             IN  [raised |-> FALSE,
                  filters |-> [ft \in types |->
                      item.filters[CHOOSE k \in 1..Len(item.filters) :
                          /\ item.filters[k].filterType = ft
                          /\ \A l \in 1..Len(item.filters) :
                                item.filters[l].filterType = ft => l <= k]],
                  exchange_info |-> info]

\* Lines 44-49 with the scanned entry dropped from the stored list once read.
_get_symbol_filters_evict(info, symbol) ==
    LET hits == {i \in 1..Len(info.symbols) : info.symbols[i].symbol = symbol}
    IN  IF hits = {} THEN [raised |-> TRUE, exchange_info |-> info]
        ELSE LET first == CHOOSE i \in hits : \A j \in hits : i <= j
                 item  == info.symbols[first]
                 types == {item.filters[k].filterType : k \in 1..Len(item.filters)}
             IN  [raised |-> FALSE,
                  filters |-> [ft \in types |->
                      item.filters[CHOOSE k \in 1..Len(item.filters) :
                          /\ item.filters[k].filterType = ft
                          /\ \A l \in 1..Len(item.filters) :
                                item.filters[l].filterType = ft => l <= k]],
                  exchange_info |->
                      [symbols |-> SubSeq(info.symbols, 1, first - 1)
                                   \o SubSeq(info.symbols, first + 1, Len(info.symbols))]]

\* Lines 44-49: the first entry of exchange_info['symbols'] with this symbol, as
\* a dict filterType -> filter (a later filter of the same type replaces an
\* earlier one); ValueError when there is none.  exchange_info is
\* self.exchange_info as the method leaves it.
_get_symbol_filters(info, symbol) ==
    LET hits == {i \in 1..Len(info.symbols) : info.symbols[i].symbol = symbol}
    IN  IF hits = {} THEN [raised |-> TRUE, exchange_info |-> info]
        ELSE LET item  == info.symbols[CHOOSE i \in hits : \A j \in hits : i <= j]
                 types == {item.filters[k].filterType : k \in 1..Len(item.filters)}
             IN  [raised |-> FALSE,
                  filters |-> [ft \in types |->
                      item.filters[CHOOSE k \in 1..Len(item.filters) :
                          /\ item.filters[k].filterType = ft
                          /\ \A l \in 1..Len(item.filters) :
                                item.filters[l].filterType = ft => l <= k]],
                  exchange_info |-> info]

\* Lines 88-89 with '0.001' as the default step.
QtyStepSizeFineDefault(filters) ==
    DictGet(DictGet(filters, "LOT_SIZE", EmptyDict), "stepSize", <<"0", ".", "0", "0", "1">>)

\* Lines 88-89 (114-115, 149-150): the LOT_SIZE step size, '1' by default.
QtyStepSize(filters) ==
    DictGet(DictGet(filters, "LOT_SIZE", EmptyDict), "stepSize", <<"1">>)

\* Lines 119-120 (154-155): the PRICE_FILTER tick size, '1' by default.
PriceTickSize(filters) ==
    DictGet(DictGet(filters, "PRICE_FILTER", EmptyDict), "tickSize", <<"1">>)

-----------------------------------------------------------------------------
(* Order requests and the place_* methods *)

None == [kind |-> "None"]

NoRequest == [sent |-> FALSE]

\* What client.futures_create_order() can do: return the order, raise
\* BinanceAPIException (the exchange rejects the order), or raise anything else
\* (BinanceRequestException, a transport error).
GatewayOutcomes == {"ok", "rejected", "network"}

LogRecord(level, msg) == [level |-> level, msg |-> msg]

\* Lines 94-99 with timeInForce passed as for the other order types.
MarketRequestWithTif(symbol, side, rounded_qty) ==
    [symbol |-> symbol, side |-> side, type |-> "MARKET", timeInForce |-> "GTC",
     quantity |-> rounded_qty]

\* Lines 94-99: the keyword arguments of a market order.
MarketRequest(symbol, side, rounded_qty) ==
    [symbol |-> symbol, side |-> side, type |-> "MARKET", quantity |-> rounded_qty]

\* Lines 125-132: the keyword arguments of a limit order.
LimitRequest(symbol, side, rounded_qty, rounded_price) ==
    [symbol |-> symbol, side |-> side, type |-> "LIMIT", timeInForce |-> "GTC",
     quantity |-> rounded_qty, price |-> rounded_price]

\* Lines 161-170: the keyword arguments of a stop-loss limit order.
StopLossLimitRequest(symbol, side, rounded_qty, rounded_price, rounded_stop_price) ==
    [symbol |-> symbol, side |-> side, type |-> "STOP_LOSS_LIMIT", timeInForce |-> "GTC",
     quantity |-> rounded_qty, price |-> rounded_price, stopPrice |-> rounded_stop_price]

\* The rest of the try block with a second futures_create_order() after a failed one.
SubmitWithRetry(req, gw, label) ==
    IF gw = "ok"
    THEN [request |-> req, attempts |-> 1,
          result |-> [kind |-> "order", orderId |-> 1001, status |-> "NEW"],
          logged |-> <<LogRecord("INFO", "Attempting order"), LogRecord("INFO", "Order Success")>>]
    ELSE [request |-> req, attempts |-> 2, result |-> None,
          logged |-> <<LogRecord("INFO", "Attempting order"), LogRecord("ERROR", label)>>]

\* Lines 92-104 (123-137, 159-175): log the attempt, call futures_create_order()
\* once, log and return the order; BinanceAPIException is logged and answered with
\* None; any other exception leaves the method.
Submit(req, gw, label) ==
    IF gw = "ok"
    THEN [request |-> req, attempts |-> 1,
          result |-> [kind |-> "order", orderId |-> 1001, status |-> "NEW"],
          logged |-> <<LogRecord("INFO", "Attempting order"), LogRecord("INFO", "Order Success")>>]
    ELSE IF gw = "rejected"
    THEN [request |-> req, attempts |-> 1, result |-> None,
          logged |-> <<LogRecord("INFO", "Attempting order"), LogRecord("ERROR", label)>>]
    ELSE [request |-> req, attempts |-> 1,
          result |-> [kind |-> "raised", exc |-> "RequestException"],
          logged |-> <<LogRecord("INFO", "Attempting order")>>]

\* The except clause of a place_* method for the ValueError of _get_symbol_filters.
LookupFailed(label) ==
    [request |-> NoRequest, attempts |-> 0, result |-> None,
     logged |-> <<[level |-> "ERROR", msg |-> label,
                   exc |-> "ValueError: Symbol not found in exchange information."]>>]

\* Lines 80-104.  fq: see _round_value.
place_market_order(info, symbol, side, quantity, fq, gw) ==
    LET look == _get_symbol_filters(info, symbol)
    IN  IF look.raised
        THEN [exchange_info |-> look.exchange_info,
              out |-> LookupFailed("Binance API Error (Market)")]
        ELSE LET qty_step_size == QtyStepSize(look.filters)
                 rounded_qty   == _round_value(quantity, qty_step_size, fq)
             IN  [exchange_info |-> look.exchange_info,
                  out |-> Submit(MarketRequest(symbol, side, rounded_qty), gw,
                                 "Binance API Error (Market)")]

\* Lines 106-137.
place_limit_order(info, symbol, side, quantity, price, fq, fpr, gw) ==
    LET look == _get_symbol_filters(info, symbol)
    IN  IF look.raised
        THEN [exchange_info |-> look.exchange_info,
              out |-> LookupFailed("Binance API Error (Limit)")]
        ELSE LET qty_step_size   == QtyStepSize(look.filters)
                 rounded_qty     == _round_value(quantity, qty_step_size, fq)
                 price_tick_size == PriceTickSize(look.filters)
                 rounded_price   == _round_value(price, price_tick_size, fpr)
             IN  [exchange_info |-> look.exchange_info,
                  out |-> Submit(LimitRequest(symbol, side, rounded_qty, rounded_price), gw,
                                 "Binance API Error (Limit)")]

\* Lines 140-175.
place_stop_loss_limit(info, symbol, side, quantity, price, stop_price, fq, fpr, fst, gw) ==
    LET look == _get_symbol_filters(info, symbol)
    IN  IF look.raised
        THEN [exchange_info |-> look.exchange_info,
              out |-> LookupFailed("Binance API Error (Stop-Loss)")]
        ELSE LET qty_step_size      == QtyStepSize(look.filters)
                 rounded_qty        == _round_value(quantity, qty_step_size, fq)
                 price_tick_size    == PriceTickSize(look.filters)
                 rounded_price      == _round_value(price, price_tick_size, fpr)
                 rounded_stop_price == _round_value(stop_price, price_tick_size, fst)
             IN  [exchange_info |-> look.exchange_info,
                  out |-> Submit(StopLossLimitRequest(symbol, side, rounded_qty,
                                                      rounded_price, rounded_stop_price),
                                 gw, "Binance API Error (Stop-Loss)")]

\* The positions the quotient of a quantity (kind "LOT_SIZE") or of a price
\* (kind "PRICE_FILTER") can take for this symbol.
FloatCasesFor(info, symbol, kind, value) ==
    LET look == _get_symbol_filters(info, symbol)
    IN  IF look.raised THEN {"exact"}
        ELSE FloatCases(value, IF kind = "LOT_SIZE" THEN QtyStepSize(look.filters)
                               ELSE PriceTickSize(look.filters))

-----------------------------------------------------------------------------
(* The query and cancel methods *)

\* Two answers client.futures_account() can give.
AccountWithUsdt ==
    [assets |-> << [asset |-> "BNB", walletBalance |-> <<"0", ".", "5">>],
                   [asset |-> "USDT", walletBalance |-> <<"1", "0", "0", ".", "5", "0">>] >>]

AccountWithoutUsdt ==
    [assets |-> << [asset |-> "BNB", walletBalance |-> <<"0", ".", "5">>] >>]

AccountOutcomes == {"with_asset", "without_asset", "rejected", "network"}

\* Lines 68-78.
get_account_balance(asset, gw) ==
    IF gw = "rejected"
    THEN [result |-> None, logged |-> <<LogRecord("ERROR", "Error fetching balance")>>]
    ELSE IF gw = "network"
    THEN [result |-> [kind |-> "raised", exc |-> "RequestException"], logged |-> <<>>]
    ELSE LET account == IF gw = "with_asset" THEN AccountWithUsdt ELSE AccountWithoutUsdt
             hits    == {i \in 1..Len(account.assets) : account.assets[i].asset = asset}
         IN  IF hits = {}
             THEN [result |-> [kind |-> "float", value |-> Dec(0, 0)], logged |-> <<>>]
             ELSE [result |-> [kind |-> "float",
                               value |-> ParseFloat(account.assets[
                                   CHOOSE i \in hits : \A j \in hits : i <= j].walletBalance)],
                   logged |-> <<>>]

OpenOrdersOutcomes == {"none", "some", "rejected", "network"}

\* Lines 177-200.  symbol is "" for all symbols (None in the code).
get_open_orders(symbol, gw) ==
    IF gw = "rejected"
    THEN [result |-> None, logged |-> <<LogRecord("ERROR", "Error fetching open orders")>>]
    ELSE IF gw = "network"
    THEN [result |-> [kind |-> "raised", exc |-> "RequestException"], logged |-> <<>>]
    ELSE LET orders == IF gw = "none" THEN <<>>
                       ELSE << [orderId |-> 1001,
                                symbol |-> IF symbol = "" THEN "BTCUSDT" ELSE symbol,
                                status |-> "NEW"] >>
             fetched == LogRecord("INFO", IF symbol # "" THEN "Fetched open orders for symbol"
                                          ELSE "Fetched open orders across all symbols")
         IN  IF orders = <<>>
             THEN [result |-> [kind |-> "list", orders |-> <<>>],
                   logged |-> <<fetched, LogRecord("PRINT", "No open orders found.")>>]
             ELSE [result |-> [kind |-> "list", orders |-> orders],
                   logged |-> <<fetched, LogRecord("PRINT", "--- OPEN ORDERS ---")>>]

\* Whether int(text) succeeds: an optional sign and at least one digit.
IsIntText(s) ==
    LET body == IF s # <<>> /\ s[1] = "-" THEN Tail(s) ELSE s
    IN  body # <<>> /\ \A i \in 1..Len(body) : \E d \in 0..9 : Digits[d + 1] = body[i]

CancelOutcomes == {"ok", "rejected", "network"}

\* Lines 202-219.
cancel_order_by_id(symbol, order_id, gw) ==
    IF ~IsIntText(order_id)
    THEN [result |-> None, logged |-> <<LogRecord("ERROR", "Invalid Order ID. Must be a number.")>>]
    ELSE IF gw = "ok"
    THEN [result |-> [kind |-> "order", orderId |-> DigitsVal(order_id), status |-> "CANCELED"],
          logged |-> <<LogRecord("INFO", "Attempting to cancel order"),
                       LogRecord("INFO", "Order Cancellation Success")>>]
    ELSE IF gw = "rejected"
    THEN [result |-> None,
          logged |-> <<LogRecord("INFO", "Attempting to cancel order"),
                       LogRecord("ERROR", "Error canceling order")>>]
    ELSE [result |-> [kind |-> "raised", exc |-> "RequestException"],
          logged |-> <<LogRecord("INFO", "Attempting to cancel order")>>]

CancelAllOutcomes == {"code200", "other", "rejected", "network"}

\* Lines 221-238.
cancel_all_open_orders(symbol, gw) ==
    IF gw = "code200"
    THEN [result |-> [kind |-> "dict", code |-> 200],
          logged |-> <<LogRecord("WARNING", "Attempting to cancel ALL open orders"),
                       LogRecord("INFO", "Successfully cancelled orders")>>]
    ELSE IF gw = "other"
    THEN [result |-> [kind |-> "dict", code |-> 400],
          logged |-> <<LogRecord("WARNING", "Attempting to cancel ALL open orders"),
                       LogRecord("INFO", "No open orders found to cancel")>>]
    ELSE IF gw = "rejected"
    THEN [result |-> None,
          logged |-> <<LogRecord("WARNING", "Attempting to cancel ALL open orders"),
                       LogRecord("ERROR", "Error canceling all orders")>>]
    ELSE [result |-> [kind |-> "raised", exc |-> "RequestException"],
          logged |-> <<LogRecord("WARNING", "Attempting to cancel ALL open orders")>>]

-----------------------------------------------------------------------------
(* Inputs *)

\* The most place_* calls a behaviour makes.
MaxCalls == 2

\* Symbols as typed and upper-cased; XRPUSDT is in no snapshot.
Symbols == {"BTCUSDT", "ETHUSDT", "XRPUSDT"}

\* Sides as typed and upper-cased.
SideInputs == {"BUY", "SELL", "HOLD"}

\* 0.12345, 7.8, -5
Quantities == {Dec(12345, 5), Dec(78, 1), Dec(-5, 0)}

\* 65000.07, 65000.05, 0
Prices == {Dec(6500007, 2), Dec(6500005, 2), Dec(0, 0)}

OrderIds == {<<"1", "0", "0", "1">>}

\* Arguments of the calls made on the bot by code other than main().
ClientSymbols == {"BTCUSDT", "XRPUSDT"}

ClientSides == {"BUY", "HOLD"}

ClientQuantities == {Dec(12345, 5)}

ClientPrices == {Dec(6500007, 2)}

-----------------------------------------------------------------------------
(* main() *)

NoCall == [op |-> "none"]

NoInput == [choice |-> "none"]

\* Line 302 without the test.
SideAcceptedAny(side_input) == TRUE

\* Line 302: whether main() lets the side through.
SideAccepted(side_input) == side_input \in {"BUY", "SELL"}

Init ==
    /\ pc = "start"
    /\ exchange_info = NotFetched
    /\ fetches = 0
    /\ calls = 0
    /\ sent = 0
    /\ last_call = NoCall
    /\ request = NoRequest
    /\ result = None
    /\ logged = <<>>
    /\ inp = NoInput
    /\ nv = Dec(0, 0)
    /\ ns = <<"1">>
    /\ nout = <<>>
    /\ nagain = <<>>
    /\ npc = "idle"

\* Lines 264-269: a credential is empty.
MainNoCredentials ==
    /\ pc = "start"
    /\ pc' = "exited"
    /\ logged' = <<LogRecord("ERROR", "Credentials missing. Exiting.")>>
    /\ UNCHANGED <<exchange_info, fetches, calls, sent, last_call, request, result, inp>>
    /\ UNCHANGED normvars

\* Lines 272-276 with lines 27-42: Client(), get_server_time() or
\* futures_exchange_info() raises; __init__ logs and re-raises, main() returns.
MainInitFailed ==
    /\ pc = "start"
    /\ \E at \in {"client", "server_time", "exchange_info"} :
          /\ fetches' = IF at = "exchange_info" THEN fetches + 1 ELSE fetches
          /\ logged' = <<LogRecord("ERROR", "Failed to connect to Binance"),
                         LogRecord("PRINT", "Initialization failed.")>>
    /\ pc' = "exited"
    /\ UNCHANGED <<exchange_info, calls, sent, last_call, request, result, inp>>
    /\ UNCHANGED normvars

\* Lines 22-38: __init__ stores the one snapshot it fetches.  who is "menu" for
\* main() (lines 272-273) and "client" for another caller constructing the bot.
BotConstructed(who) ==
    /\ pc = "start"
    /\ \E snapshot \in Snapshots : exchange_info' = snapshot
    /\ fetches' = fetches + 1
    /\ logged' = <<LogRecord("INFO", "Bot Initialized."),
                   LogRecord("INFO", "Connection to Binance API successful."),
                   LogRecord("INFO", "Fetched futures exchange information")>>
    /\ pc' = who
    /\ UNCHANGED <<calls, sent, last_call, request, result, inp>>
    /\ UNCHANGED normvars

MainInitOk == BotConstructed("menu")

ClientInitOk == BotConstructed("client")

\* The state a place_* call leaves: r is what the method computed, said is what
\* main() prints for an order that was returned.  An exception that leaves the
\* method ends main(); another caller keeps its bot.
AfterPlace(via, call, r, said) ==
    /\ calls < MaxCalls
    /\ calls' = calls + 1
    /\ sent' = sent + r.out.attempts
    /\ last_call' = call
    /\ request' = r.out.request
    /\ result' = r.out.result
    /\ logged' = IF via = "cli" /\ r.out.result.kind = "order"
                 THEN r.out.logged \o <<LogRecord("PRINT", said)>>
                 ELSE r.out.logged
    /\ exchange_info' = r.exchange_info
    /\ pc' = IF via # "cli" THEN pc
             ELSE IF r.out.result.kind = "raised" THEN "crashed" ELSE "menu"
    /\ inp' = NoInput
    /\ UNCHANGED fetches
    /\ UNCHANGED normvars

\* The state a query or cancel call from the menu leaves.
AfterQuery(call, r) ==
    /\ last_call' = call
    /\ request' = NoRequest
    /\ result' = r.result
    /\ logged' = r.logged
    /\ pc' = IF r.result.kind = "raised" THEN "crashed" ELSE "menu"
    /\ inp' = NoInput
    /\ UNCHANGED <<exchange_info, fetches, calls, sent>>
    /\ UNCHANGED normvars

\* A prompt answered: main() moves to the next prompt with the answer kept.
Prompted(next, answers) ==
    /\ pc' = next
    /\ inp' = answers
    /\ last_call' = NoCall
    /\ request' = NoRequest
    /\ result' = None
    /\ logged' = <<>>
    /\ UNCHANGED <<exchange_info, fetches, calls, sent>>
    /\ UNCHANGED normvars

\* An iteration of the loop that ends without a call on the bot.
Said(next, call, text) ==
    /\ pc' = next
    /\ inp' = NoInput
    /\ last_call' = call
    /\ request' = NoRequest
    /\ result' = None
    /\ logged' = <<LogRecord("PRINT", text)>>
    /\ UNCHANGED <<exchange_info, fetches, calls, sent>>
    /\ UNCHANGED normvars

\* Lines 290-295.
Choice1 ==
    /\ pc = "menu"
    /\ \E gw \in AccountOutcomes :
          AfterQuery([op |-> "get_account_balance", via |-> "cli"],
                     get_account_balance("USDT", gw))

\* Lines 297-299: an order choice, then the symbol is asked for.
ChoiceOrder ==
    /\ pc = "menu"
    /\ calls < MaxCalls
    /\ \E choice \in {"2", "3", "4"} : Prompted("ask_symbol", [choice |-> choice])

\* Lines 298-300.
EnterSymbol ==
    /\ pc = "ask_symbol"
    /\ \E symbol \in Symbols :
          Prompted("ask_side", [choice |-> inp.choice, symbol |-> symbol])

\* Lines 300-304: a side main() refuses ends the iteration.
EnterSideInvalid ==
    /\ pc = "ask_side"
    /\ \E side_input \in SideInputs :
          /\ ~SideAccepted(side_input)
          /\ Said("menu",
                  [op |-> "order_choice", via |-> "cli", choice |-> inp.choice,
                   symbol |-> inp.symbol, side |-> side_input],
                  "Invalid side. Must be BUY or SELL.")

\* Lines 300-306.
EnterSide ==
    /\ pc = "ask_side"
    /\ \E side_input \in SideInputs :
          /\ SideAccepted(side_input)
          /\ Prompted("ask_qty", [choice |-> inp.choice, symbol |-> inp.symbol,
                                  side |-> side_input])

\* Lines 244-254: text that type_func refuses is asked for again.
EnterInvalidNumber ==
    /\ pc \in {"ask_qty", "ask_price", "ask_stop", "ask_cancel_id"}
    /\ logged' = <<LogRecord("PRINT", "Invalid input format. Please try again.")>>
    /\ UNCHANGED <<pc, inp, exchange_info, fetches, calls, sent, last_call, request, result>>
    /\ UNCHANGED normvars

\* Lines 306-312: the quantity of a market order, and the order is placed.
EnterQuantityMarket ==
    /\ pc = "ask_qty"
    /\ inp.choice = "2"
    /\ \E qty \in Quantities, gw \in GatewayOutcomes :
          \E fq \in FloatCasesFor(exchange_info, inp.symbol, "LOT_SIZE", qty) :
             AfterPlace("cli",
                        [op |-> "place_market_order", via |-> "cli", symbol |-> inp.symbol,
                         side |-> inp.side, quantity |-> qty],
                        place_market_order(exchange_info, inp.symbol, inp.side, qty, fq, gw),
                        "Order Executed!")

\* Lines 306, 314-316 and 321-324: the quantity of a limit or stop-loss order.
EnterQuantity ==
    /\ pc = "ask_qty"
    /\ inp.choice \in {"3", "4"}
    /\ \E qty \in Quantities :
          Prompted("ask_price", [choice |-> inp.choice, symbol |-> inp.symbol,
                                 side |-> inp.side, quantity |-> qty])

\* Lines 316-319: the price of a limit order, and the order is placed.
EnterPriceLimit ==
    /\ pc = "ask_price"
    /\ inp.choice = "3"
    /\ \E price \in Prices, gw \in GatewayOutcomes :
          \E fq \in FloatCasesFor(exchange_info, inp.symbol, "LOT_SIZE", inp.quantity),
             fpr \in FloatCasesFor(exchange_info, inp.symbol, "PRICE_FILTER", price) :
             AfterPlace("cli",
                        [op |-> "place_limit_order", via |-> "cli", symbol |-> inp.symbol,
                         side |-> inp.side, quantity |-> inp.quantity, price |-> price],
                        place_limit_order(exchange_info, inp.symbol, inp.side, inp.quantity,
                                          price, fq, fpr, gw),
                        "Order Placed!")

\* Lines 323-326: the limit price of a stop-loss order.
EnterPrice ==
    /\ pc = "ask_price"
    /\ inp.choice = "4"
    /\ \E price \in Prices :
          Prompted("ask_stop", [choice |-> inp.choice, symbol |-> inp.symbol,
                                side |-> inp.side, quantity |-> inp.quantity,
                                price |-> price])

\* Lines 325-330: the trigger price, and the stop-loss order is placed.
EnterStopPrice ==
    /\ pc = "ask_stop"
    /\ \E stop_price \in Prices, gw \in GatewayOutcomes :
          \E fq \in FloatCasesFor(exchange_info, inp.symbol, "LOT_SIZE", inp.quantity),
             fpr \in FloatCasesFor(exchange_info, inp.symbol, "PRICE_FILTER", inp.price),
             fst \in FloatCasesFor(exchange_info, inp.symbol, "PRICE_FILTER", stop_price) :
             AfterPlace("cli",
                        [op |-> "place_stop_loss_limit", via |-> "cli", symbol |-> inp.symbol,
                         side |-> inp.side, quantity |-> inp.quantity, price |-> inp.price,
                         stop_price |-> stop_price],
                        place_stop_loss_limit(exchange_info, inp.symbol, inp.side,
                                              inp.quantity, inp.price, stop_price,
                                              fq, fpr, fst, gw),
                        "Advanced Order Placed!")

\* Lines 332-337: a blank symbol asks for all symbols.
Choice5 ==
    /\ pc = "menu"
    /\ \E symbol_input \in Symbols \cup {""}, gw \in OpenOrdersOutcomes :
          AfterQuery([op |-> "get_open_orders", via |-> "cli", symbol |-> symbol_input],
                     get_open_orders(symbol_input, gw))

\* Lines 339-342.
Choice6 ==
    /\ pc = "menu"
    /\ \E symbol \in Symbols : Prompted("ask_cancel_id", [choice |-> "6", symbol |-> symbol])

\* Lines 343-344: get_user_input(..., int) hands over a number.
EnterOrderId ==
    /\ pc = "ask_cancel_id"
    /\ \E order_id \in OrderIds, gw \in CancelOutcomes :
          AfterQuery([op |-> "cancel_order_by_id", via |-> "cli", symbol |-> inp.symbol],
                     cancel_order_by_id(inp.symbol, order_id, gw))

\* Lines 346-351.
Choice7 ==
    /\ pc = "menu"
    /\ \E symbol \in Symbols : Prompted("ask_confirm", [choice |-> "7", symbol |-> symbol])

\* Lines 352-353: confirmed with "yes".
ConfirmYes ==
    /\ pc = "ask_confirm"
    /\ \E gw \in CancelAllOutcomes :
          AfterQuery([op |-> "cancel_all_open_orders", via |-> "cli", symbol |-> inp.symbol],
                     cancel_all_open_orders(inp.symbol, gw))

\* Lines 354-355: anything else.
ConfirmNo ==
    /\ pc = "ask_confirm"
    /\ Said("menu", [op |-> "cancel_all_choice", via |-> "cli", symbol |-> inp.symbol],
            "Cancellation aborted.")

\* Lines 357-359.
Choice8 ==
    /\ pc = "menu"
    /\ Said("exited", [op |-> "exit", via |-> "cli"], "Exiting Bot. Goodbye!")

\* Lines 360-361.
ChoiceInvalid ==
    /\ pc = "menu"
    /\ Said("menu", [op |-> "invalid_choice", via |-> "cli"], "Invalid selection.")

-----------------------------------------------------------------------------
(* Calls on a constructed bot by code other than main() *)

\* Lines 80-104 with whatever side the caller passes.
DirectMarket ==
    /\ pc = "client"
    /\ \E symbol \in ClientSymbols, side \in ClientSides, qty \in ClientQuantities,
          gw \in GatewayOutcomes :
          \E fq \in FloatCasesFor(exchange_info, symbol, "LOT_SIZE", qty) :
             AfterPlace("direct",
                        [op |-> "place_market_order", via |-> "direct", symbol |-> symbol,
                         side |-> side, quantity |-> qty],
                        place_market_order(exchange_info, symbol, side, qty, fq, gw), "")

\* Lines 106-137.
DirectLimit ==
    /\ pc = "client"
    /\ \E symbol \in ClientSymbols, side \in ClientSides, qty \in ClientQuantities,
          price \in ClientPrices, gw \in GatewayOutcomes :
          \E fq \in FloatCasesFor(exchange_info, symbol, "LOT_SIZE", qty),
             fpr \in FloatCasesFor(exchange_info, symbol, "PRICE_FILTER", price) :
             AfterPlace("direct",
                        [op |-> "place_limit_order", via |-> "direct", symbol |-> symbol,
                         side |-> side, quantity |-> qty, price |-> price],
                        place_limit_order(exchange_info, symbol, side, qty, price, fq, fpr, gw),
                        "")

\* Lines 140-175.
DirectStopLossLimit ==
    /\ pc = "client"
    /\ \E symbol \in ClientSymbols, side \in ClientSides, qty \in ClientQuantities,
          price \in ClientPrices, stop_price \in ClientPrices, gw \in GatewayOutcomes :
          \E fq \in FloatCasesFor(exchange_info, symbol, "LOT_SIZE", qty),
             fpr \in FloatCasesFor(exchange_info, symbol, "PRICE_FILTER", price),
             fst \in FloatCasesFor(exchange_info, symbol, "PRICE_FILTER", stop_price) :
             AfterPlace("direct",
                        [op |-> "place_stop_loss_limit", via |-> "direct", symbol |-> symbol,
                         side |-> side, quantity |-> qty, price |-> price,
                         stop_price |-> stop_price],
                        place_stop_loss_limit(exchange_info, symbol, side, qty, price,
                                              stop_price, fq, fpr, fst, gw),
                        "")

Next ==
    \/ MainNoCredentials
    \/ MainInitFailed
    \/ MainInitOk
    \/ ClientInitOk
    \/ Choice1
    \/ ChoiceOrder
    \/ EnterSymbol
    \/ EnterSideInvalid
    \/ EnterSide
    \/ EnterInvalidNumber
    \/ EnterQuantityMarket
    \/ EnterQuantity
    \/ EnterPriceLimit
    \/ EnterPrice
    \/ EnterStopPrice
    \/ Choice5
    \/ Choice6
    \/ EnterOrderId
    \/ Choice7
    \/ ConfirmYes
    \/ ConfirmNo
    \/ Choice8
    \/ ChoiceInvalid
    \/ DirectMarket
    \/ DirectLimit
    \/ DirectStopLossLimit

Spec == Init /\ [][Next]_vars

-----------------------------------------------------------------------------
(* The normalizer on its own: _round_value applied to a value and a step size, *)
(* and applied again to the text it returned.                                  *)

\* 1.23456, 7.8, 0.12345, 65000.07, 12, -5, 0, 0.575, 1.5, 2.5, 0.0015
NormValues ==
    {Dec(123456, 5), Dec(78, 1), Dec(12345, 5), Dec(6500007, 2), Dec(12, 0), Dec(-5, 0),
     Dec(0, 0), Dec(575, 3), Dec(15, 1), Dec(25, 1), Dec(15, 4)}

\* "0.001", "0.10", "0.01", "0.00100", "0.5", "1", "1.0", "5", "10"
NormSteps ==
    {<<"0", ".", "0", "0", "1">>, <<"0", ".", "1", "0">>, <<"0", ".", "0", "1">>,
     <<"0", ".", "0", "0", "1", "0", "0">>, <<"0", ".", "5">>, <<"1">>, <<"1", ".", "0">>,
     <<"5">>, <<"1", "0">>}

InitNorm ==
    /\ pc = "start"
    /\ exchange_info = NotFetched
    /\ fetches = 0
    /\ calls = 0
    /\ sent = 0
    /\ last_call = NoCall
    /\ request = NoRequest
    /\ result = None
    /\ logged = <<>>
    /\ inp = NoInput
    /\ nv \in NormValues
    /\ ns \in NormSteps
    /\ nout = <<>>
    /\ nagain = <<>>
    /\ npc = "input"

\* _round_value(nv, ns)
Normalize ==
    /\ npc = "input"
    /\ \E fp \in FloatCases(nv, ns) : nout' = _round_value(nv, ns, fp)
    /\ npc' = "normalized"
    /\ UNCHANGED <<nv, ns, nagain>>
    /\ UNCHANGED botvars

\* _round_value(float(nout), ns)
Renormalize ==
    /\ npc = "normalized"
    /\ \E fp \in FloatCases(ParseFloat(nout), ns) :
          nagain' = _round_value(ParseFloat(nout), ns, fp)
    /\ npc' = "renormalized"
    /\ UNCHANGED <<nv, ns, nout>>
    /\ UNCHANGED botvars

NextNorm ==
    \/ Normalize
    \/ Renormalize

SpecNorm == InitNorm /\ [][NextNorm]_vars

-----------------------------------------------------------------------------
(* Vocabulary of the properties *)

PlaceOps == {"place_market_order", "place_limit_order", "place_stop_loss_limit"}

\* The operation handled last called futures_create_order().
Dispatched == request # NoRequest

\* The operation handled last was a place_* call.
Placed == last_call.op \in PlaceOps

HasDot(text) == \E i \in 1..Len(text) : text[i] = "."

\* The number of digits after the '.' of a decimal text.
FracDigits(text) ==
    IF HasDot(text)
    THEN Len(text) - (CHOOSE i \in 1..Len(text) : text[i] = "." /\ \A j \in (i + 1)..Len(text) : text[j] # ".")
    ELSE 0

\* The number of fractional digits a step size implies: those of its fractional
\* part once its trailing zeros are stripped, none when it has no fractional part.
ImpliedDigits(step_text) ==
    IF HasDot(step_text)
    THEN LET dot  == CHOOSE i \in 1..Len(step_text) : step_text[i] = "."
             last == CHOOSE k \in dot..Len(step_text) :
                         /\ \A j \in (k + 1)..Len(step_text) : step_text[j] = "0"
                         /\ (k = dot \/ step_text[k] # "0")
         IN  last - dot
    ELSE 0

\* The number a decimal text denotes is an integer multiple of the step.
IsStepMultiple(text, step_text) ==
    LET v == ParseFloat(text)
        s == ParseFloat(step_text)
        E == Max(v.e, s.e)
    IN  (v.m * Pow10(E - v.e)) % (s.m * Pow10(E - s.e)) = 0

\* text is an integer written without a fractional part, and no integer is
\* nearer to value.
IsNearestWhole(text, value) ==
    /\ ~HasDot(text)
    /\ LET n == ParseFloat(text)
       IN  /\ n.e = 0
           /\ 2 * Abs(n.m * Pow10(value.e) - value.m) <= Pow10(value.e)

\* The symbol is in no entry of the stored snapshot.
SymbolAbsent(info, symbol) ==
    \A i \in 1..Len(info.symbols) : info.symbols[i].symbol # symbol

\* The stored snapshot has an entry for the symbol with a filter of this type
\* that carries this key with this text.
StoredEntry(info, symbol, ftype, key, text) ==
    \E i \in 1..Len(info.symbols) :
        /\ info.symbols[i].symbol = symbol
        /\ \E k \in 1..Len(info.symbols[i].filters) :
              LET f == info.symbols[i].filters[k]
              IN  f.filterType = ftype /\ key \in DOMAIN f /\ f[key] = text

\* The symbol has an entry, and no filter of this type in it carries the key.
LacksEntry(info, symbol, ftype, key) ==
    /\ ~SymbolAbsent(info, symbol)
    /\ \A i \in 1..Len(info.symbols) :
          info.symbols[i].symbol = symbol =>
              \A k \in 1..Len(info.symbols[i].filters) :
                  LET f == info.symbols[i].filters[k]
                  IN  f.filterType = ftype => key \notin DOMAIN f

HasError(records) == \E i \in 1..Len(records) : records[i].level = "ERROR"

-----------------------------------------------------------------------------
(* Properties *)

\* C1: whatever the step size and the (positive) value, the text _round_value
\* returns denotes an integer multiple of the step size and has exactly the
\* number of fractional digits the step size implies (0 for "5" or "10", 1 for
\* "0.10").
C1_MultipleWithImpliedDigits ==
    (npc \in {"normalized", "renormalized"} /\ nv.m > 0) =>
        /\ IsStepMultiple(nout, ns)
        /\ FracDigits(nout) = ImpliedDigits(ns)

\* C2: a market order is dispatched with a quantity and without price,
\* stopPrice and timeInForce; a limit order with quantity, price and timeInForce
\* GTC and without stopPrice; a stop-loss limit order with quantity, price,
\* stopPrice and timeInForce GTC.
C2_FieldSelection ==
    (Placed /\ Dispatched) =>
        /\ last_call.op = "place_market_order" =>
              /\ request.type = "MARKET"
              /\ "quantity" \in DOMAIN request
              /\ DOMAIN request \cap {"price", "stopPrice", "timeInForce"} = {}
        /\ last_call.op = "place_limit_order" =>
              /\ request.type = "LIMIT"
              /\ {"quantity", "price", "timeInForce"} \subseteq DOMAIN request
              /\ request.timeInForce = "GTC"
              /\ "stopPrice" \notin DOMAIN request
        /\ last_call.op = "place_stop_loss_limit" =>
              /\ request.type = "STOP_LOSS_LIMIT"
              /\ {"quantity", "price", "stopPrice", "timeInForce"} \subseteq DOMAIN request
              /\ request.timeInForce = "GTC"

C2_Witness ==
    /\ Dispatched
    /\ last_call.op = "place_stop_loss_limit"
    /\ result.kind = "order"

\* C3: a place_* call for a symbol that is absent from the stored snapshot
\* dispatches nothing and tells its caller: it returns None and logs the
\* ValueError of the lookup as an error.
C3_AbsentSymbolAborts ==
    (Placed /\ SymbolAbsent(exchange_info, last_call.symbol)) =>
        /\ ~Dispatched
        /\ result = None
        /\ \E i \in 1..Len(logged) :
              /\ logged[i].level = "ERROR"
              /\ "exc" \in DOMAIN logged[i]
              /\ logged[i].exc = "ValueError: Symbol not found in exchange information."

C3_Witness ==
    /\ Placed
    /\ last_call.op = "place_limit_order"
    /\ last_call.symbol = "XRPUSDT"
    /\ SymbolAbsent(exchange_info, "XRPUSDT")
    /\ sent = 0

\* C4: no order is dispatched whose quantity, price or stop price was given as
\* a value that is not positive.
C4_NonPositiveNeverDispatched ==
    (Placed /\ Dispatched) =>
        /\ last_call.quantity.m > 0
        /\ "price" \in DOMAIN last_call => last_call.price.m > 0
        /\ "stop_price" \in DOMAIN last_call => last_call.stop_price.m > 0

\* C5: one place_* call makes at most one futures_create_order() call, so no
\* more orders are ever sent than place_* calls were made; a dispatch that did
\* not return an order is surfaced (None with an error logged, or the exception
\* itself) and nothing is sent again until the next place_* call.
C5_AtMostOncePerCall ==
    /\ [](sent <= calls)
    /\ []((Placed /\ Dispatched /\ result.kind # "order") =>
              \/ result.kind = "raised"
              \/ (result = None /\ HasError(logged)))
    /\ [][/\ sent' <= sent + 1
          /\ sent' >= sent
          /\ sent' # sent => calls' = calls + 1]_vars

C5_Witness ==
    /\ Placed
    /\ Dispatched
    /\ result = None
    /\ calls = 2
    /\ sent = 2

\* C6: when the symbol's filters carry no LOT_SIZE step size (the filter or its
\* stepSize entry is missing) the order is still dispatched, with the quantity
\* as the nearest whole number without decimals; likewise the price and the stop
\* price when no PRICE_FILTER tick size is carried.
C6_MissingFilterFallback ==
    Placed =>
        /\ LacksEntry(exchange_info, last_call.symbol, "LOT_SIZE", "stepSize") =>
              /\ Dispatched
              /\ IsNearestWhole(request.quantity, last_call.quantity)
        /\ (/\ last_call.op \in {"place_limit_order", "place_stop_loss_limit"}
            /\ LacksEntry(exchange_info, last_call.symbol, "PRICE_FILTER", "tickSize")) =>
              /\ Dispatched
              /\ IsNearestWhole(request.price, last_call.price)
              /\ last_call.op = "place_stop_loss_limit" =>
                    IsNearestWhole(request.stopPrice, last_call.stop_price)

C6_Witness ==
    /\ Placed
    /\ last_call.op = "place_stop_loss_limit"
    /\ last_call.symbol = "ETHUSDT"
    /\ last_call.quantity = Dec(78, 1)
    /\ last_call.price = Dec(6500007, 2)
    /\ LacksEntry(exchange_info, "ETHUSDT", "LOT_SIZE", "stepSize")
    /\ LacksEntry(exchange_info, "ETHUSDT", "PRICE_FILTER", "tickSize")
    /\ request.quantity = <<"8">>

C8_Idempotent ==
    npc = "renormalized" => nagain = nout

C8_Witness ==
    /\ npc = "renormalized"
    /\ ParseFloat(nout) # nv
    /\ ns = <<"0", ".", "0", "0", "1">>

\* The limit order of the end-to-end scenario left the bot: BTCUSDT with step
\* size "0.001" and tick size "0.10", BUY 0.12345 at 65000.07.
C9_Scenario ==
    /\ Placed
    /\ Dispatched
    /\ last_call.op = "place_limit_order"
    /\ last_call.symbol = "BTCUSDT"
    /\ last_call.side = "BUY"
    /\ last_call.quantity = Dec(12345, 5)
    /\ last_call.price = Dec(6500007, 2)
    /\ StoredEntry(exchange_info, "BTCUSDT", "LOT_SIZE", "stepSize", <<"0", ".", "0", "0", "1">>)
    /\ StoredEntry(exchange_info, "BTCUSDT", "PRICE_FILTER", "tickSize", <<"0", ".", "1", "0">>)

\* C9 as claimed: the scenario's order is dispatched with quantity "0.123",
\* price "65000.10" and timeInForce "GTC".
C9_ScenarioAsClaimed ==
    C9_Scenario =>
        /\ request.quantity = <<"0", ".", "1", "2", "3">>
        /\ request.price = <<"6", "5", "0", "0", "0", ".", "1", "0">>
        /\ request.timeInForce = "GTC"

\* C9 as amended: the scenario's order is dispatched with quantity "0.123",
\* price "65000.1" (one fractional digit: the trailing zero of the tick size
\* "0.10" is not counted) and timeInForce "GTC".
C9_ScenarioOneDigit ==
    C9_Scenario =>
        /\ request.quantity = <<"0", ".", "1", "2", "3">>
        /\ request.price = <<"6", "5", "0", "0", "0", ".", "1">>
        /\ request.timeInForce = "GTC"

C9_Witness ==
    /\ C9_Scenario
    /\ last_call.via = "cli"
    /\ result.kind = "order"

\* C10: futures_exchange_info() is called once, by __init__; from then on no
\* operation on the bot, succeeding or failing, calls it again or changes the
\* stored snapshot.
C10_SnapshotFetchedOnceReadOnly ==
    /\ [](fetches <= 1)
    /\ [](pc \notin {"start", "exited"} => (fetches = 1 /\ exchange_info \in Snapshots))
    /\ [][pc # "start" => (exchange_info' = exchange_info /\ fetches' = fetches)]_vars

C10_Witness ==
    /\ fetches = 1
    /\ exchange_info \in Snapshots
    /\ calls = 2
    /\ Placed
    /\ result.kind = "raised"
    /\ pc = "crashed"

=============================================================================
